---------------------------- MODULE Spec2Model ----------------------------
(***************************************************************************)
(* Model of wk_load_media.py: the generator get_ycba_generator, its date   *)
(* normalisation (the eight regular expressions and the if/elif chain)     *)
(* and the medium/surface extraction get_medium_poperties with the two     *)
(* rule tables media and surfaces.                                         *)
(*                                                                         *)
(* Texts are sequences of one-character strings.  The two accented         *)
(* letters of the tables are the characters "e_acute" and "a_circ".        *)
(* Regular expressions are matched by a small backtracking matcher that    *)
(* follows Python's re: leftmost match, alternatives in order, greedy      *)
(* quantifiers.                                                            *)
(***************************************************************************)
EXTENDS Integers, Sequences, FiniteSets, TLC

VARIABLES pc, artwork, metadata, medium_text, properties, paint, matched,
          count, count0

vars == <<pc, artwork, metadata, medium_text, properties, paint, matched,
          count, count0>>

---------------------------------------------------------------------------
(* Characters and character classes of Python's re *)

Lower == <<"a","b","c","d","e","f","g","h","i","j","k","l","m",
           "n","o","p","q","r","s","t","u","v","w","x","y","z">>
Upper == <<"A","B","C","D","E","F","G","H","I","J","K","L","M",
           "N","O","P","Q","R","S","T","U","V","W","X","Y","Z">>
DigitChars == <<"0","1","2","3","4","5","6","7","8","9">>

Chars(s) == {s[i] : i \in DOMAIN s}

\* \d
Digit == Chars(DigitChars)
\* \s
Space == {" ", "\n", "\t"}
\* \w ; \W is its complement
WordCh == Chars(Lower) \cup Chars(Upper) \cup Digit \cup {"_", "e_acute", "a_circ"}

\* the characters a literal matches under flags=re.I
CaseVariants(c) ==
  IF \E i \in DOMAIN Lower : Lower[i] = c \/ Upper[i] = c
  THEN LET i == CHOOSE j \in DOMAIN Lower : Lower[j] = c \/ Upper[j] = c
       IN {Lower[i], Upper[i]}
  ELSE {c}

---------------------------------------------------------------------------
(* Regular expressions.  A pattern is a sequence of alternatives in the    *)
(* order re tries them.  An alternative is a sequence of elements, and an  *)
(* element is a sequence of tokens: either one anchor ("^", "$"), or one   *)
(* quantified class or letter ("\\s*", "\\s+", "\\s?", "u?"), or a run of  *)
(* tokens that match one character each: a literal character or a class   *)
(* ("\\d", "\\s", "\\W", "\\.").  A parenthesised group of the source is   *)
(* an element of its own.                                                  *)

\* the characters a one-character token matches: [neg, cls] matches c when
\* (c \in cls) # neg
Class(tok, ci) ==
  CASE tok = "\\d" -> [neg |-> FALSE, cls |-> Digit]
    [] tok = "\\W" -> [neg |-> TRUE,  cls |-> WordCh]
    [] tok = "\\s" -> [neg |-> FALSE, cls |-> Space]
    [] tok = "\\." -> [neg |-> FALSE, cls |-> {"."}]
    [] OTHER       -> [neg |-> FALSE, cls |-> IF ci THEN CaseVariants(tok) ELSE {tok}]

Element(el, ci) ==
  CASE el = <<"^">>    -> [q |-> "^", run |-> <<>>]
    [] el = <<"$">>    -> [q |-> "$", run |-> <<>>]
    [] el = <<"\\s*">> -> [q |-> "*", run |-> <<Class("\\s", ci)>>]
    [] el = <<"\\s+">> -> [q |-> "+", run |-> <<Class("\\s", ci)>>]
    [] el = <<"\\s?">> -> [q |-> "?", run |-> <<Class("\\s", ci)>>]
    [] el = <<"u?">>   -> [q |-> "?", run |-> <<Class("u", ci)>>]
    [] OTHER           -> [q |-> "1", run |-> [k \in DOMAIN el |-> Class(el[k], ci)]]

\* re.compile(pattern, flags=re.I if ci else 0)
Compile(pattern, ci) ==
  [a \in DOMAIN pattern |->
     [k \in DOMAIN pattern[a] |-> Element(pattern[a][k], ci)]]

\* a pattern of a single alternative
Plain(els) == << els >>

InClass(c, x) == (x \in c.cls) # c.neg

\* the run of one-character classes matches t at position i
RunAt(run, t, i) ==
  /\ i + Len(run) - 1 <= Len(t)
  /\ \A k \in DOMAIN run : InClass(run[k], t[i + k - 1])

\* how many characters from position i on belong to class c, at most most
Repeat(c, t, i, most) ==
  LET stop == {n \in 0..(most - 1) : i + n > Len(t) \/ ~InClass(c, t[i + n])} IN
  IF stop = {} THEN most
  ELSE CHOOSE n \in stop : \A m \in stop : n <= m

Fail == <<0>>

RECURSIVE Walk(_, _, _, _)
RECURSIVE TryLen(_, _, _, _, _, _)
\* Match elements k.. of one alternative at position i of t: the positions
\* reached after each element, or Fail.
Walk(els, t, k, i) ==
  IF k > Len(els) THEN <<>>
  ELSE LET e == els[k] IN
    CASE e.q = "^" -> IF i = 1 THEN TryLen(els, t, k, i, 0, 0) ELSE Fail
      \* $ without re.M: at the end, or before a newline that ends the text
      [] e.q = "$" -> IF i = Len(t) + 1 \/ (i = Len(t) /\ t[i] = "\n")
                      THEN TryLen(els, t, k, i, 0, 0) ELSE Fail
      [] e.q = "1" -> IF RunAt(e.run, t, i)
                      THEN TryLen(els, t, k, i, Len(e.run), Len(e.run)) ELSE Fail
      [] e.q = "?" -> TryLen(els, t, k, i, Repeat(e.run[1], t, i, 1), 0)
      [] e.q = "*" -> TryLen(els, t, k, i, Repeat(e.run[1], t, i, Len(t)), 0)
      [] e.q = "+" -> TryLen(els, t, k, i, Repeat(e.run[1], t, i, Len(t)), 1)

\* greedy: the longest repetition first, then shorter ones
TryLen(els, t, k, i, n, lo) ==
  IF n < lo THEN Fail
  ELSE LET r == Walk(els, t, k + 1, i + n) IN
       IF r # Fail THEN <<i + n>> \o r
       ELSE TryLen(els, t, k, i, n - 1, lo)

RECURSIVE MatchAlt(_, _, _, _)
\* the first alternative (from a on) of compiled pattern p that matches at i
MatchAlt(p, t, i, a) ==
  IF a > Len(p) THEN [ok |-> FALSE]
  ELSE LET r == Walk(p[a], t, 1, i) IN
       IF r # Fail
       THEN [ok |-> TRUE, alt |-> a, start |-> i, ends |-> r,
             end |-> IF r = <<>> THEN i ELSE r[Len(r)]]
       ELSE MatchAlt(p, t, i, a + 1)

\* the leftmost match that starts at position from or later
SearchFrom(p, t, from) ==
  LET hits == {i \in from..(Len(t) + 1) : MatchAlt(p, t, i, 1).ok} IN
  IF hits = {} THEN [ok |-> FALSE]
  ELSE MatchAlt(p, t, CHOOSE i \in hits : \A j \in hits : i <= j, 1)

\* re.search(p, t)
Search(p, t) == SearchFrom(p, t, 1)

RECURSIVE SubFrom(_, _, _)
\* t from position i on with every match removed (no pattern of the
\* program matches the empty text)
SubFrom(p, t, i) ==
  LET m == SearchFrom(p, t, i) IN
  IF ~m.ok \/ m.end = m.start THEN SubSeq(t, i, Len(t))
  ELSE SubSeq(t, i, m.start - 1) \o SubFrom(p, t, m.end)

\* re.sub(p, '', t): every non-overlapping match removed, left to right
Sub(p, t) == SubFrom(p, t, 1)

\* m.group(g) where the group is element k of the alternative
Group(m, t, k) ==
  SubSeq(t, IF k = 1 THEN m.start ELSE m.ends[k - 1], m.ends[k] - 1)

---------------------------------------------------------------------------
(* str.strip(), int(), '%s%s' % (a, b) *)

RECURSIVE LStrip(_)
LStrip(s) == IF s # <<>> /\ Head(s) \in Space THEN LStrip(Tail(s)) ELSE s

RECURSIVE RStrip(_)
RStrip(s) ==
  IF s # <<>> /\ s[Len(s)] \in Space THEN RStrip(SubSeq(s, 1, Len(s) - 1)) ELSE s

Strip(s) == RStrip(LStrip(s))

DigitValue(c) == (CHOOSE i \in DOMAIN DigitChars : DigitChars[i] = c) - 1

RECURSIVE PyInt(_)
\* int(s) for a text of decimal digits
PyInt(s) ==
  IF s = <<>> THEN 0
  ELSE 10 * PyInt(SubSeq(s, 1, Len(s) - 1)) + DigitValue(s[Len(s)])

Concat(a, b) == a \o b

---------------------------------------------------------------------------
(* The date expressions of get_ycba_generator *)

D2 == <<"\\d", "\\d">>
D4 == <<"\\d", "\\d", "\\d", "\\d">>

\* fault: the single-year expression without its $
dateregex_open ==
  Plain(<< <<"^">>, D4 >>)
\* r'^(\d\d\d\d)$'
dateregex ==
  Plain(<< <<"^">>, D4, <<"$">> >>)
\* r'^(c\.|circa)\s*(\d\d\d\d)$': two alternatives, c\. first
datecircaregex ==
  << << <<"^">>, <<"c", "\\.">>, <<"\\s*">>, D4, <<"$">> >>,
     << <<"^">>, <<"c", "i", "r", "c", "a">>, <<"\\s*">>, D4, <<"$">> >> >>
\* fault: the period expression with \s? for \s* around the hyphen
periodregex_onespace ==
  Plain(<< <<"^">>, D4, <<"\\s?">>, <<"-">>, <<"\\s?">>, D4, <<"$">> >>)
\* r'^(\d\d\d\d)\s*-\s*(\d\d\d\d)$'
periodregex ==
  Plain(<< <<"^">>, D4, <<"\\s*">>, <<"-">>, <<"\\s*">>, D4, <<"$">> >>)
\* r'^between\s*(\d\d\d\d)\s*and\s*(\d\d\d\d)$'
betweenperiodregex ==
  Plain(<< <<"^">>, <<"b", "e", "t", "w", "e", "e", "n">>, <<"\\s*">>, D4, <<"\\s*">>,
           <<"a", "n", "d">>, <<"\\s*">>, D4, <<"$">> >>)
\* r'^after\s*(\d\d\d\d)$'
afterregex ==
  Plain(<< <<"^">>, <<"a", "f", "t", "e", "r">>, <<"\\s*">>, D4, <<"$">> >>)
\* r'^(\d\d)(\d\d)\s*-\s*(\d\d)$'
shortperiodregex ==
  Plain(<< <<"^">>, D2, D2, <<"\\s*">>, <<"-">>, <<"\\s*">>, D2, <<"$">> >>)
\* r'^c\.\s*(\d\d\d\d)\s*-\s*(\d\d\d\d)$'
circaperiodregex ==
  Plain(<< <<"^">>, <<"c", "\\.">>, <<"\\s*">>, D4, <<"\\s*">>, <<"-">>, <<"\\s*">>,
           D4, <<"$">> >>)
\* r'^c\.\s*(\d\d)(\d\d)\s*-\s*(\d\d)$'
circashortperiodregex ==
  Plain(<< <<"^">>, <<"c", "\\.">>, <<"\\s*">>, D2, D2, <<"\\s*">>, <<"-">>, <<"\\s*">>,
           D2, <<"$">> >>)

\* re.search of the eight expressions; between and after with flags=re.I
datematch(date)             == Search(Compile(dateregex, FALSE), date)
datecircamatch(date)        == Search(Compile(datecircaregex, FALSE), date)
periodmatch(date)           == Search(Compile(periodregex, FALSE), date)
\* fault: "between" searched without flags=re.I
betweenperiodmatch_cased(date) == Search(Compile(betweenperiodregex, FALSE), date)
betweenperiodmatch(date)    == Search(Compile(betweenperiodregex, TRUE), date)
aftermatch(date)            == Search(Compile(afterregex, TRUE), date)
circaperiodmatch(date)      == Search(Compile(circaperiodregex, FALSE), date)
shortperiodmatch(date)      == Search(Compile(shortperiodregex, FALSE), date)
circashortperiodmatch(date) == Search(Compile(circashortperiodregex, FALSE), date)

\* dictionaries: functions on a finite set of keys
EmptyDict == [k \in {} |-> TRUE]
Put(d, key, v) == [k \in DOMAIN d \cup {key} |-> IF k = key THEN v ELSE d[k]]

\* int(m.group(g).strip()): the year of a single date, g being element k
SingleYear(m, date, k) == PyInt(Strip(Group(m, date, k)))

\* int(m.group(g)): a bound of a period of two full years
PeriodYear(m, date, k) == PyInt(Group(m, date, k))

\* int('%s%s' % (m.group(1), m.group(2))): start of a short period;
\* c is the element of the century group
ShortStart(m, date, c) == PyInt(Concat(Group(m, date, c), Group(m, date, c + 1)))

\* fault: the end of a short period without the century digits
ShortEnd_nocentury(m, date, c, e) == PyInt(Group(m, date, e))

\* int('%s%s' % (m.group(1), m.group(3))): end of a short period;
\* e is the element of the two-digit end group
ShortEnd(m, date, c, e) == PyInt(Concat(Group(m, date, c), Group(m, date, e)))

\* fault: the else branch without its "continue"
Unparsed_kept(md, date) == [skip |-> FALSE, md |-> md]

\* else: print(WARNING ...); continue
Unparsed(md, date) == [skip |-> TRUE, md |-> md]

\* The if/elif chain: [skip |-> TRUE] for the else branch (continue), or
\* the metadata with the inception keys set.
InceptionKeys(md, date) ==
  LET m1 == datematch(date)
      m2 == datecircamatch(date)
      m3 == periodmatch(date)
      m4 == betweenperiodmatch(date)
      m5 == aftermatch(date)
      m6 == circaperiodmatch(date)
      m7 == shortperiodmatch(date)
      m8 == circashortperiodmatch(date)
  IN
  IF m1.ok THEN
    [skip |-> FALSE, md |-> Put(md, "inception", SingleYear(m1, date, 2))]
  ELSE IF m2.ok THEN
    [skip |-> FALSE,
     md |-> Put(Put(md, "inception", SingleYear(m2, date, 4)), "inceptioncirca", TRUE)]
  ELSE IF m3.ok THEN
    [skip |-> FALSE,
     md |-> Put(Put(md, "inceptionstart", PeriodYear(m3, date, 2)),
                "inceptionend", PeriodYear(m3, date, 6))]
  ELSE IF m4.ok THEN
    [skip |-> FALSE,
     md |-> Put(Put(md, "inceptionstart", PeriodYear(m4, date, 4)),
                "inceptionend", PeriodYear(m4, date, 8))]
  ELSE IF m5.ok THEN
    [skip |-> FALSE,
     md |-> Put(Put(md, "inception", SingleYear(m5, date, 4)), "inceptionafter", TRUE)]
  ELSE IF m6.ok THEN
    [skip |-> FALSE,
     md |-> Put(Put(Put(md, "inceptionstart", PeriodYear(m6, date, 4)),
                    "inceptionend", PeriodYear(m6, date, 8)),
                "inceptioncirca", TRUE)]
  ELSE IF m7.ok THEN
    [skip |-> FALSE,
     md |-> Put(Put(md, "inceptionstart", ShortStart(m7, date, 2)),
                "inceptionend", ShortEnd(m7, date, 2, 7))]
  ELSE IF m8.ok THEN
    [skip |-> FALSE,
     md |-> Put(Put(Put(md, "inceptionstart", ShortStart(m8, date, 4)),
                    "inceptionend", ShortEnd(m8, date, 4, 9)),
                "inceptioncirca", TRUE)]
  ELSE Unparsed(md, date)

---------------------------------------------------------------------------
(* The rule tables.  A table pattern is a sequence of top-level branches   *)
(* (split at "|" outside parentheses); a branch is the sequence of its     *)
(* alternatives, a group such as (|lime) written out in the order re tries *)
(* it.                                                                     *)

media ==
  <<
    \* 591: Ancaster stone
    [medium |-> <<Plain(<< <<"A", "n", "c", "a", "s", "t", "e", "r", " ", "s", "t", "o", "n", "e">> >>)>>,
     qid |-> "Q4752538", paint |-> FALSE],
    \* 592: acrylic
    [medium |-> <<Plain(<< <<"a", "c", "r", "y", "l", "i", "c">> >>)>>,
     qid |-> "Q207849", paint |-> TRUE],
    \* 593: alabaster
    [medium |-> <<Plain(<< <<"a", "l", "a", "b", "a", "s", "t", "e", "r">> >>)>>,
     qid |-> "Q143447", paint |-> FALSE],
    \* 594: albumen\s+print
    [medium |-> <<Plain(<< <<"a", "l", "b", "u", "m", "e", "n">>, <<"\\s+">>, <<"p", "r", "i", "n", "t">> >>)>>,
     qid |-> "Q580807", paint |-> FALSE],
    \* 595: aquatint
    [medium |-> <<Plain(<< <<"a", "q", "u", "a", "t", "i", "n", "t">> >>)>>,
     qid |-> "Q473236", paint |-> FALSE],
    \* 596: arborite
    [medium |-> <<Plain(<< <<"a", "r", "b", "o", "r", "i", "t", "e">> >>)>>,
     qid |-> "Q4784911", paint |-> FALSE],
    \* 597: black\s+basalt
    [medium |-> <<Plain(<< <<"b", "l", "a", "c", "k">>, <<"\\s+">>, <<"b", "a", "s", "a", "l", "t">> >>)>>,
     qid |-> "Q98097860", paint |-> FALSE],
    \* 598: bronze
    [medium |-> <<Plain(<< <<"b", "r", "o", "n", "z", "e">> >>)>>,
     qid |-> "Q34095", paint |-> FALSE],
    \* 599: brown\s+ink
    [medium |-> <<Plain(<< <<"b", "r", "o", "w", "n">>, <<"\\s+">>, <<"i", "n", "k">> >>)>>,
     qid |-> "Q58344150", paint |-> FALSE],
    \* 600: ink
    [medium |-> <<Plain(<< <<"i", "n", "k">> >>)>>,
     qid |-> "Q127418", paint |-> FALSE],
    \* 601: black\s+chalk
    [medium |-> <<Plain(<< <<"b", "l", "a", "c", "k">>, <<"\\s+">>, <<"c", "h", "a", "l", "k">> >>)>>,
     qid |-> "Q3387833", paint |-> FALSE],
    \* 602: red\s+chalk
    [medium |-> <<Plain(<< <<"r", "e", "d">>, <<"\\s+">>, <<"c", "h", "a", "l", "k">> >>)>>,
     qid |-> "Q901944", paint |-> FALSE],
    \* 603: carborundum
    [medium |-> <<Plain(<< <<"c", "a", "r", "b", "o", "r", "u", "n", "d", "u", "m">> >>)>>,
     qid |-> "Q3206631", paint |-> FALSE],
    \* 604: ceramic
    [medium |-> <<Plain(<< <<"c", "e", "r", "a", "m", "i", "c">> >>)>>,
     qid |-> "Q45621", paint |-> FALSE],
    \* 605: chalk
    [medium |-> <<Plain(<< <<"c", "h", "a", "l", "k">> >>)>>,
     qid |-> "Q183670", paint |-> FALSE],
    \* 606: charcoal
    [medium |-> <<Plain(<< <<"c", "h", "a", "r", "c", "o", "a", "l">> >>)>>,
     qid |-> "Q1424515", paint |-> FALSE],
    \* 607: chine\s+collé
    [medium |-> <<Plain(<< <<"c", "h", "i", "n", "e">>, <<"\\s+">>, <<"c", "o", "l", "l", "e_acute">> >>)>>,
     qid |-> "Q3674992", paint |-> FALSE],
    \* 608: cibachrome
    [medium |-> <<Plain(<< <<"c", "i", "b", "a", "c", "h", "r", "o", "m", "e">> >>)>>,
     qid |-> "Q1622095", paint |-> FALSE],
    \* 609: collotype
    [medium |-> <<Plain(<< <<"c", "o", "l", "l", "o", "t", "y", "p", "e">> >>)>>,
     qid |-> "Q1572315", paint |-> FALSE],
    \* 610: concrete
    [medium |-> <<Plain(<< <<"c", "o", "n", "c", "r", "e", "t", "e">> >>)>>,
     qid |-> "Q22657", paint |-> FALSE],
    \* 611: coade\s+stone
    [medium |-> <<Plain(<< <<"c", "o", "a", "d", "e">>, <<"\\s+">>, <<"s", "t", "o", "n", "e">> >>)>>,
     qid |-> "Q682083", paint |-> FALSE],
    \* 612: copper
    [medium |-> <<Plain(<< <<"c", "o", "p", "p", "e", "r">> >>)>>,
     qid |-> "Q753", paint |-> FALSE],
    \* 613: conté crayon
    [medium |-> <<Plain(<< <<"c", "o", "n", "t", "e_acute", " ", "c", "r", "a", "y", "o", "n">> >>)>>,
     qid |-> "Q1129270", paint |-> FALSE],
    \* 614: drypoint
    [medium |-> <<Plain(<< <<"d", "r", "y", "p", "o", "i", "n", "t">> >>)>>,
     qid |-> "Q542340", paint |-> FALSE],
    \* 615: dye coupler
    [medium |-> <<Plain(<< <<"d", "y", "e", " ", "c", "o", "u", "p", "l", "e", "r">> >>)>>,
     qid |-> "Q172922", paint |-> FALSE],
    \* 616: enamel
    [medium |-> <<Plain(<< <<"e", "n", "a", "m", "e", "l">> >>)>>,
     qid |-> "Q213371", paint |-> FALSE],
    \* 617: stipple(|\s+engraving)
    [medium |-> <<<<<< <<"s", "t", "i", "p", "p", "l", "e">> >>, << <<"s", "t", "i", "p", "p", "l", "e">>, <<"\\s+">>, <<"e", "n", "g", "r", "a", "v", "i", "n", "g">> >>>>>>,
     qid |-> "Q7617514", paint |-> FALSE],
    \* 618: line\s+engraving
    [medium |-> <<Plain(<< <<"l", "i", "n", "e">>, <<"\\s+">>, <<"e", "n", "g", "r", "a", "v", "i", "n", "g">> >>)>>,
     qid |-> "Q747704", paint |-> FALSE],
    \* 619: engrav
    [medium |-> <<Plain(<< <<"e", "n", "g", "r", "a", "v">> >>)>>,
     qid |-> "Q11835431", paint |-> FALSE],
    \* 620: etching|etched
    [medium |-> <<<<<< <<"e", "t", "c", "h", "i", "n", "g">> >>>>, <<<< <<"e", "t", "c", "h", "e", "d">> >>>>>>,
     qid |-> "Q186986", paint |-> FALSE],
    \* 621: gelatin\s+silver\s+print
    [medium |-> <<Plain(<< <<"g", "e", "l", "a", "t", "i", "n">>, <<"\\s+">>, <<"s", "i", "l", "v", "e", "r">>, <<"\\s+">>, <<"p", "r", "i", "n", "t">> >>)>>,
     qid |-> "Q64029133", paint |-> FALSE],
    \* 622: gesso
    [medium |-> <<Plain(<< <<"g", "e", "s", "s", "o">> >>)>>,
     qid |-> "Q1514256", paint |-> TRUE],
    \* 623: gold\s+leaf
    [medium |-> <<Plain(<< <<"g", "o", "l", "d">>, <<"\\s+">>, <<"l", "e", "a", "f">> >>)>>,
     qid |-> "Q929186", paint |-> FALSE],
    \* 624: gold
    [medium |-> <<Plain(<< <<"g", "o", "l", "d">> >>)>>,
     qid |-> "Q208045", paint |-> FALSE],
    \* 625: gouache
    [medium |-> <<Plain(<< <<"g", "o", "u", "a", "c", "h", "e">> >>)>>,
     qid |-> "Q204330", paint |-> TRUE],
    \* 626: graphite
    [medium |-> <<Plain(<< <<"g", "r", "a", "p", "h", "i", "t", "e">> >>)>>,
     qid |-> "Q5309", paint |-> FALSE],
    \* 627: gum\s+arabic
    [medium |-> <<Plain(<< <<"g", "u", "m">>, <<"\\s+">>, <<"a", "r", "a", "b", "i", "c">> >>)>>,
     qid |-> "Q535814", paint |-> FALSE],
    \* 628: ivory
    [medium |-> <<Plain(<< <<"i", "v", "o", "r", "y">> >>)>>,
     qid |-> "Q82001", paint |-> FALSE],
    \* 629: lacquer
    [medium |-> <<Plain(<< <<"l", "a", "c", "q", "u", "e", "r">> >>)>>,
     qid |-> "Q11236878", paint |-> FALSE],
    \* 630: lead
    [medium |-> <<Plain(<< <<"l", "e", "a", "d">> >>)>>,
     qid |-> "Q708", paint |-> FALSE],
    \* 631: letterpress
    [medium |-> <<Plain(<< <<"l", "e", "t", "t", "e", "r", "p", "r", "e", "s", "s">> >>)>>,
     qid |-> "Q582102", paint |-> FALSE],
    \* 632: lithograph
    [medium |-> <<Plain(<< <<"l", "i", "t", "h", "o", "g", "r", "a", "p", "h">> >>)>>,
     qid |-> "Q15123870", paint |-> FALSE],
    \* 633: marble
    [medium |-> <<Plain(<< <<"m", "a", "r", "b", "l", "e">> >>)>>,
     qid |-> "Q40861", paint |-> FALSE],
    \* 634: mezzotint
    [medium |-> <<Plain(<< <<"m", "e", "z", "z", "o", "t", "i", "n", "t">> >>)>>,
     qid |-> "Q731980", paint |-> FALSE],
    \* 635: mixed\s+media
    [medium |-> <<Plain(<< <<"m", "i", "x", "e", "d">>, <<"\\s+">>, <<"m", "e", "d", "i", "a">> >>)>>,
     qid |-> "Q1902763", paint |-> FALSE],
    \* 636: monotype
    [medium |-> <<Plain(<< <<"m", "o", "n", "o", "t", "y", "p", "e">> >>)>>,
     qid |-> "Q22669635", paint |-> FALSE],
    \* 637: oil
    [medium |-> <<Plain(<< <<"o", "i", "l">> >>)>>,
     qid |-> "Q296955", paint |-> TRUE],
    \* 638: papier\s+mache
    [medium |-> <<Plain(<< <<"p", "a", "p", "i", "e", "r">>, <<"\\s+">>, <<"m", "a", "c", "h", "e">> >>)>>,
     qid |-> "Q899363", paint |-> FALSE],
    \* 639: papier\s+mâché
    [medium |-> <<Plain(<< <<"p", "a", "p", "i", "e", "r">>, <<"\\s+">>, <<"m", "a_circ", "c", "h", "e_acute">> >>)>>,
     qid |-> "Q899363", paint |-> FALSE],
    \* 640: pastel
    [medium |-> <<Plain(<< <<"p", "a", "s", "t", "e", "l">> >>)>>,
     qid |-> "Q189085", paint |-> FALSE],
    \* 641: pearl\s*ware
    [medium |-> <<Plain(<< <<"p", "e", "a", "r", "l">>, <<"\\s*">>, <<"w", "a", "r", "e">> >>)>>,
     qid |-> "Q98807132", paint |-> FALSE],
    \* 642: photogravure
    [medium |-> <<Plain(<< <<"p", "h", "o", "t", "o", "g", "r", "a", "v", "u", "r", "e">> >>)>>,
     qid |-> "Q23657361", paint |-> FALSE],
    \* 643: plaster
    [medium |-> <<Plain(<< <<"p", "l", "a", "s", "t", "e", "r">> >>)>>,
     qid |-> "Q274988", paint |-> FALSE],
    \* 644: porcelain
    [medium |-> <<Plain(<< <<"p", "o", "r", "c", "e", "l", "a", "i", "n">> >>)>>,
     qid |-> "Q130693", paint |-> FALSE],
    \* 645: portland\s+(|lime)stone
    [medium |-> <<<<<< <<"p", "o", "r", "t", "l", "a", "n", "d">>, <<"\\s+">>, <<"s", "t", "o", "n", "e">> >>, << <<"p", "o", "r", "t", "l", "a", "n", "d">>, <<"\\s+">>, <<"l", "i", "m", "e", "s", "t", "o", "n", "e">> >>>>>>,
     qid |-> "Q82337", paint |-> FALSE],
    \* 646: silkscreen
    [medium |-> <<Plain(<< <<"s", "i", "l", "k", "s", "c", "r", "e", "e", "n">> >>)>>,
     qid |-> "Q187791", paint |-> FALSE],
    \* 647: screen\s?print
    [medium |-> <<Plain(<< <<"s", "c", "r", "e", "e", "n">>, <<"\\s?">>, <<"p", "r", "i", "n", "t">> >>)>>,
     qid |-> "Q22569957", paint |-> FALSE],
    \* 648: slate
    [medium |-> <<Plain(<< <<"s", "l", "a", "t", "e">> >>)>>,
     qid |-> "Q207079", paint |-> FALSE],
    \* 649: tempera
    [medium |-> <<Plain(<< <<"t", "e", "m", "p", "e", "r", "a">> >>)>>,
     qid |-> "Q175166", paint |-> TRUE],
    \* 650: terracotta
    [medium |-> <<Plain(<< <<"t", "e", "r", "r", "a", "c", "o", "t", "t", "a">> >>)>>,
     qid |-> "Q60424", paint |-> FALSE],
    \* 651: varnish
    [medium |-> <<Plain(<< <<"v", "a", "r", "n", "i", "s", "h">> >>)>>,
     qid |-> "Q81683", paint |-> FALSE],
    \* 652: vinyl
    [medium |-> <<Plain(<< <<"v", "i", "n", "y", "l">> >>)>>,
     qid |-> "xxx", paint |-> FALSE],
    \* 653: wash
    [medium |-> <<Plain(<< <<"w", "a", "s", "h">> >>)>>,
     qid |-> "Q1469362", paint |-> TRUE],
    \* 654: watercolou?r
    [medium |-> <<Plain(<< <<"w", "a", "t", "e", "r", "c", "o", "l", "o">>, <<"u?">>, <<"r">> >>)>>,
     qid |-> "Q22915256", paint |-> TRUE],
    \* 655: wax
    [medium |-> <<Plain(<< <<"w", "a", "x">> >>)>>,
     qid |-> "Q69158", paint |-> FALSE],
    \* 656: paint
    [medium |-> <<Plain(<< <<"p", "a", "i", "n", "t">> >>)>>,
     qid |-> "Q174219", paint |-> TRUE]
  >>

surfaces ==
  <<
    \* 665: canvas
    [surface |-> <<Plain(<< <<"c", "a", "n", "v", "a", "s">> >>)>>,
     qid |-> "Q12321255"],
    \* 666: cardboard
    [surface |-> <<Plain(<< <<"c", "a", "r", "d", "b", "o", "a", "r", "d">> >>)>>,
     qid |-> "Q389782"],
    \* 667: board
    [surface |-> <<Plain(<< <<"b", "o", "a", "r", "d">> >>)>>,
     qid |-> "Q18668582"],
    \* 668: card
    [surface |-> <<Plain(<< <<"c", "a", "r", "d">> >>)>>,
     qid |-> "Q6432723"],
    \* 669: newsprint
    [surface |-> <<Plain(<< <<"n", "e", "w", "s", "p", "r", "i", "n", "t">> >>)>>,
     qid |-> "Q187046"],
    \* 670: panel
    [surface |-> <<Plain(<< <<"p", "a", "n", "e", "l">> >>)>>,
     qid |-> "Q1348059"],
    \* 671: photographic\s+paper
    [surface |-> <<Plain(<< <<"p", "h", "o", "t", "o", "g", "r", "a", "p", "h", "i", "c">>, <<"\\s+">>, <<"p", "a", "p", "e", "r">> >>)>>,
     qid |-> "Q912760"],
    \* 672: handmade paper
    [surface |-> <<Plain(<< <<"h", "a", "n", "d", "m", "a", "d", "e", " ", "p", "a", "p", "e", "r">> >>)>>,
     qid |-> "Q65769963"],
    \* 673: laid\s+paper
    [surface |-> <<Plain(<< <<"l", "a", "i", "d">>, <<"\\s+">>, <<"p", "a", "p", "e", "r">> >>)>>,
     qid |-> "Q1513685"],
    \* 674: wove\s+paper
    [surface |-> <<Plain(<< <<"w", "o", "v", "e">>, <<"\\s+">>, <<"p", "a", "p", "e", "r">> >>)>>,
     qid |-> "Q21279007"],
    \* 675: paper
    [surface |-> <<Plain(<< <<"p", "a", "p", "e", "r">> >>)>>,
     qid |-> "Q11472"],
    \* 676: parchment
    [surface |-> <<Plain(<< <<"p", "a", "r", "c", "h", "m", "e", "n", "t">> >>)>>,
     qid |-> "Q226697"],
    \* 677: silk
    [surface |-> <<Plain(<< <<"s", "i", "l", "k">> >>)>>,
     qid |-> "Q37681"],
    \* 678: steel
    [surface |-> <<Plain(<< <<"s", "t", "e", "e", "l">> >>)>>,
     qid |-> "Q11427"],
    \* 679: vellum
    [surface |-> <<Plain(<< <<"v", "e", "l", "l", "u", "m">> >>)>>,
     qid |-> "Q378274"],
    \* 680: vinyl
    [surface |-> <<Plain(<< <<"v", "i", "n", "y", "l">> >>)>>,
     qid |-> "Q1812439"],
    \* 681: wood
    [surface |-> <<Plain(<< <<"w", "o", "o", "d">> >>)>>,
     qid |-> "Q287"]
  >>

RECURSIVE Flatten(_)
Flatten(ss) == IF ss = <<>> THEN <<>> ELSE Head(ss) \o Flatten(Tail(ss))

Prefixed(pre, alts) == [a \in DOMAIN alts |-> pre \o alts[a]]

\* fr"(^|\W){p}": the group binds tighter than a top-level "|" of p, so
\* only p's first branch carries the boundary
Boundary(bs) ==
  Prefixed(<< <<"^">> >>, Head(bs)) \o Prefixed(<< <<"\\W">> >>, Head(bs))
    \o Flatten(Tail(bs))

\* fr"(^|\s)on\s+{p}"
OnPattern(bs) ==
  Prefixed(<< <<"^">>, <<"o", "n">>, <<"\\s+">> >>, Head(bs))
    \o Prefixed(<< <<"\\s", "o", "n">>, <<"\\s+">> >>, Head(bs))
    \o Flatten(Tail(bs))

\* the expressions of get_medium_poperties, all with flags=re.I
mediumSearch  == [i \in DOMAIN media |-> Compile(Boundary(media[i].medium), TRUE)]
mediumSub     == [i \in DOMAIN media |-> Compile(Flatten(media[i].medium), TRUE)]
paintSub      == Compile(Plain(<< <<"p", "a", "i", "n", "t">> >>), TRUE)
on_search     == [j \in DOMAIN surfaces |-> Compile(OnPattern(surfaces[j].surface), TRUE)]
surfaceSearch == [j \in DOMAIN surfaces |-> Compile(Boundary(surfaces[j].surface), TRUE)]
surfaceSub    == [j \in DOMAIN surfaces |-> Compile(Flatten(surfaces[j].surface), TRUE)]

\* the state of one call: the working text, the result, the paint flag,
\* the rules whose search matched (<<phase, index>>)
StartCall(text) ==
  [text |-> text, properties |-> EmptyDict, paint |-> FALSE, matched |-> {}]

\* fault: a matched material stored with True
AddMedium_true(props, qid) == IF qid \in DOMAIN props THEN props ELSE Put(props, qid, TRUE)

\* properties[medium['qid']] = False, under "if medium['qid'] not in properties"
AddMedium(props, qid) == IF qid \in DOMAIN props THEN props ELSE Put(props, qid, FALSE)

\* fault: the paint flag set by every matching rule, paint or not
MediumRule_anypaint(st, i) ==
  IF Search(mediumSearch[i], st.text).ok
  THEN LET t1 == Sub(mediumSub[i], st.text) IN
       [text       |-> IF media[i].paint THEN Sub(paintSub, t1) ELSE t1,
        paint      |-> TRUE,
        properties |-> AddMedium(st.properties, media[i].qid),
        matched    |-> st.matched \cup {<<"medium", i>>}]
  ELSE st

\* body of the first loop for rule i
MediumRule(st, i) ==
  IF Search(mediumSearch[i], st.text).ok
  THEN LET t1 == Sub(mediumSub[i], st.text) IN
       [text       |-> IF media[i].paint THEN Sub(paintSub, t1) ELSE t1,
        paint      |-> IF media[i].paint THEN TRUE ELSE st.paint,
        properties |-> AddMedium(st.properties, media[i].qid),
        matched    |-> st.matched \cup {<<"medium", i>>}]
  ELSE st

RECURSIVE MediumLoop(_, _, _)
\* for medium in media: the body for rules lo..hi in table order.  The
\* range is halved to keep the evaluation shallow, and the second half is
\* left out once the working text is empty: every search needs a character.
MediumLoop(st, lo, hi) ==
  IF lo > hi THEN st
  ELSE IF lo = hi THEN MediumRule(st, lo)
  ELSE LET half == MediumLoop(st, lo, (lo + hi) \div 2) IN
       IF half.text = <<>> THEN half
       ELSE MediumLoop(half, (lo + hi) \div 2 + 1, hi)

\* fault: the surface after "on" stored with False whatever was put on it
OnSurface_false(st, j) ==
  [text       |-> Sub(on_search[j], st.text),
   paint      |-> st.paint,
   properties |-> Put(st.properties, surfaces[j].qid, FALSE),
   matched    |-> st.matched \cup {<<"on", j>>}]

\* properties[surface['qid']] = paint
OnSurface(st, j) ==
  [text       |-> Sub(on_search[j], st.text),
   paint      |-> st.paint,
   properties |-> Put(st.properties, surfaces[j].qid, st.paint),
   matched    |-> st.matched \cup {<<"on", j>>}]

\* fault: the surface latest in table order taken
OnLoop_last(st) ==
  LET found == {j \in DOMAIN surfaces : Search(on_search[j], st.text).ok} IN
  IF found = {} THEN st
  ELSE OnSurface(st, CHOOSE j \in found : \A k \in found : j >= k)

\* the second loop: the first surface in table order found after "on",
\* then break
OnLoop(st) ==
  LET found == {j \in DOMAIN surfaces : Search(on_search[j], st.text).ok} IN
  IF found = {} THEN st
  ELSE OnSurface(st, CHOOSE j \in found : \A k \in found : j <= k)

\* fault: the third loop without its re.search test
BareSurface_always(st, j) ==
  [text       |-> Sub(surfaceSub[j], st.text),
   paint      |-> st.paint,
   properties |-> Put(st.properties, surfaces[j].qid, FALSE),
   matched    |-> st.matched]

\* body of the third loop for surface j
BareSurface(st, j) ==
  IF Search(surfaceSearch[j], st.text).ok
  THEN [text       |-> Sub(surfaceSub[j], st.text),
        paint      |-> st.paint,
        properties |-> Put(st.properties, surfaces[j].qid, FALSE),
        matched    |-> st.matched \cup {<<"surface", j>>}]
  ELSE st

RECURSIVE BareLoop(_, _, _)
\* for surface in surfaces (the second time), for surfaces lo..hi, halved
\* like the first loop
BareLoop(st, lo, hi) ==
  IF lo > hi THEN st
  ELSE IF lo = hi THEN BareSurface(st, lo)
  ELSE LET half == BareLoop(st, lo, (lo + hi) \div 2) IN
       IF half.text = <<>> THEN half
       ELSE BareLoop(half, (lo + hi) \div 2 + 1, hi)

\* the three loops of get_medium_poperties
Phase1(st) == MediumLoop(st, 1, Len(media))
Phase2(st) == OnLoop(st)
Phase3(st) == BareLoop(st, 1, Len(surfaces))

\* get_medium_poperties(medium_text)
get_medium_poperties(text) == Phase3(Phase2(Phase1(StartCall(text)))).properties

---------------------------------------------------------------------------
(* The artworks handed to the generator.  An artwork's date text is        *)
(* written from a description (form, years, whitespace), which the         *)
(* artwork keeps as field src so that the outcome can be compared with     *)
(* what the text says.                                                     *)

MaxCount == 1

Years == {1750, 1884}
Ends  == {2, 86}

\* the whitespace put at one gap of a form
GapTexts == { <<>>, <<" ">>, <<"\n">>, <<" ", " ">> }

\* '%04d' and '%02d'
DigitOf(n) == DigitChars[(n % 10) + 1]
YearText(y) ==
  << DigitOf(y \div 1000), DigitOf(y \div 100), DigitOf(y \div 10), DigitOf(y) >>
EndText(z) == << DigitOf(z \div 10), DigitOf(z) >>

ToUpper(s) ==
  [i \in DOMAIN s |->
     IF \E j \in DOMAIN Lower : Lower[j] = s[i]
     THEN Upper[CHOOSE j \in DOMAIN Lower : Lower[j] = s[i]] ELSE s[i]]

\* the words of a form in the letter case asked for
Word(w, case) ==
  CASE case = "upper" -> ToUpper(w)
    [] case = "title" -> ToUpper(SubSeq(w, 1, 1)) \o SubSeq(w, 2, Len(w))
    [] OTHER -> w

\* A form is a sequence of parts: a gap with its usual whitespace, a word,
\* the first year, the second year, or the two-digit end.
Gap(usual) == [part |-> "gap", text |-> usual]
Wd(w)      == [part |-> "word", text |-> w]
Y1         == [part |-> "y1", text |-> <<>>]
Y2         == [part |-> "y2", text |-> <<>>]
ZZ         == [part |-> "zz", text |-> <<>>]
cdot       == <<"c", ".">>
circa      == <<"c", "i", "r", "c", "a">>

Forms ==
  [ year         |-> << Gap(<<>>), Y1, Gap(<<>>) >>,
    cyear        |-> << Gap(<<>>), Wd(cdot), Gap(<<" ">>), Y1, Gap(<<>>) >>,
    circayear    |-> << Gap(<<>>), Wd(circa), Gap(<<" ">>), Y1, Gap(<<>>) >>,
    period       |-> << Gap(<<>>), Y1, Gap(<<>>), Wd(<<"-">>), Gap(<<>>), Y2, Gap(<<>>) >>,
    between      |-> << Gap(<<>>), Wd(<<"b", "e", "t", "w", "e", "e", "n">>), Gap(<<" ">>),
                        Y1, Gap(<<" ">>), Wd(<<"a", "n", "d">>), Gap(<<" ">>), Y2, Gap(<<>>) >>,
    after        |-> << Gap(<<>>), Wd(<<"a", "f", "t", "e", "r">>), Gap(<<" ">>), Y1, Gap(<<>>) >>,
    cperiod      |-> << Gap(<<>>), Wd(cdot), Gap(<<" ">>), Y1, Gap(<<>>), Wd(<<"-">>),
                        Gap(<<>>), Y2, Gap(<<>>) >>,
    shortperiod  |-> << Gap(<<>>), Y1, Gap(<<>>), Wd(<<"-">>), Gap(<<>>), ZZ, Gap(<<>>) >>,
    cshortperiod |-> << Gap(<<>>), Wd(cdot), Gap(<<" ">>), Y1, Gap(<<>>), Wd(<<"-">>),
                        Gap(<<>>), ZZ, Gap(<<>>) >> ]

FormNames == DOMAIN Forms

RECURSIVE Render(_, _, _)
\* the text of description d: parts k.. of its form
Render(d, f, k) ==
  IF k > Len(f) THEN <<>>
  ELSE (CASE f[k].part = "gap"  -> IF d.gap = k THEN d.ws ELSE f[k].text
          [] f[k].part = "word" -> Word(f[k].text, d.case)
          [] f[k].part = "y1"   -> YearText(d.y1)
          [] f[k].part = "y2"   -> YearText(d.y2)
          [] f[k].part = "zz"   -> EndText(d.zz))
       \o Render(d, f, k + 1)

DateText(d) == IF d.form = "other" THEN d.text ELSE Render(d, Forms[d.form], 1)

Gaps(form) == {k \in DOMAIN Forms[form] : Forms[form][k].part = "gap"}
UsesY2(form) == \E k \in DOMAIN Forms[form] : Forms[form][k].part = "y2"
UsesZZ(form) == \E k \in DOMAIN Forms[form] : Forms[form][k].part = "zz"

Desc(form, y1, y2, zz, gap, ws, case) ==
  [form |-> form, y1 |-> y1, y2 |-> y2, zz |-> zz, gap |-> gap, ws |-> ws,
   case |-> case, text |-> <<>>]

\* every form with every year, as usually written (gap 0: no gap changed),
\* and with the whitespace at one gap replaced
Written ==
  { Desc(form, y1, y2, zz, gap, ws, "lower") :
      form \in FormNames, y1 \in Years, y2 \in Years, zz \in Ends,
      gap \in {0} \cup UNION {Gaps(g) : g \in FormNames}, ws \in GapTexts }

WellFormed(d) ==
  /\ d.gap = 0 \/ d.gap \in Gaps(d.form)
  /\ IF d.gap = 0 THEN d.ws = <<>> ELSE d.ws # Forms[d.form][d.gap].text
  /\ IF UsesY2(d.form) THEN TRUE ELSE d.y2 = d.y1
  /\ IF UsesZZ(d.form) THEN TRUE ELSE d.zz = 2

\* between and after in other letter cases
Cased ==
  { Desc(form, y1, y2, 2, 0, <<>>, case) :
      form \in {"between", "after", "cyear", "circayear"}, y1 \in Years, y2 \in Years,
      case \in {"upper", "title"} }

Other(text) ==
  [form |-> "other", y1 |-> 0, y2 |-> 0, zz |-> 0, gap |-> 0, ws |-> <<>>,
   case |-> "lower", text |-> text]

OtherDates ==
  { Other(<<>>),
    Other(<<"n", "o", "t", " ", "a", " ", "d", "a", "t", "e">>),
    Other(<<"1", "8", "5", "0", "s">>),
    Other(<<"c", "a", ".", " ", "1", "8", "5", "0">>),
    Other(<<"1", "8", "t", "h", " ", "c", "e", "n", "t", "u", "r", "y">>),
    Other(<<"1", "8", "8", "4", "-", "6">>),
    Other(<<"1", "8", "8", "4", "/", "8", "6">>),
    Other(<<"1", "8", "8", "4", " ", "o", "r", " ", "1", "8", "8", "6">>) }

DateDescs ==
  {d \in Written : WellFormed(d)} \cup {d \in Cased : WellFormed(d)} \cup OtherDates

\* a text the pattern matches: its first alternative with one space for
\* \s+ and nothing for an optional part
Instance(bs) ==
  LET els  == Head(Head(bs))
      keep == SelectSeq(els, LAMBDA e : e \notin {<<"\\s*">>, <<"\\s?">>, <<"u?">>})
  IN Flatten([k \in DOMAIN keep |-> IF keep[k] = <<"\\s+">> THEN <<" ">> ELSE keep[k]])

PaintRules == {i \in DOMAIN media : media[i].paint}

\* '<paint-type material> on <surface>' for every such rule and surface
PaintOn(i, j) ==
  Instance(media[i].medium) \o <<" ", "o", "n", " ">> \o Instance(surfaces[j].surface)

PaintOnTexts == {PaintOn(i, j) : i \in PaintRules, j \in DOMAIN surfaces}

\* medium texts beside the '<paint> on <surface>' ones
NamedMedia ==
  {
    \* 'granite'
    <<"g", "r", "a", "n", "i", "t", "e">>,
    \* 'watercolour, paper'
    <<"w", "a", "t", "e", "r", "c", "o", "l", "o", "u", "r", ",", " ", "p", "a", "p", "e", "r">>,
    \* 'gesso and gold leaf on panel'
    <<"g", "e", "s", "s", "o", " ", "a", "n", "d", " ", "g", "o", "l", "d", " ", "l", "e", "a", "f", " ", "o", "n", " ", "p", "a", "n", "e", "l">>,
    \* 'graphite on paper'
    <<"g", "r", "a", "p", "h", "i", "t", "e", " ", "o", "n", " ", "p", "a", "p", "e", "r">>,
    \* 'oil paint on canvas'
    <<"o", "i", "l", " ", "p", "a", "i", "n", "t", " ", "o", "n", " ", "c", "a", "n", "v", "a", "s">>,
    \* 'Oil on Canvas'
    <<"O", "i", "l", " ", "o", "n", " ", "C", "a", "n", "v", "a", "s">>,
    \* 'oil on canvas, canvas'
    <<"o", "i", "l", " ", "o", "n", " ", "c", "a", "n", "v", "a", "s", ",", " ", "c", "a", "n", "v", "a", "s">>,
    \* 'oil on paper laid on canvas'
    <<"o", "i", "l", " ", "o", "n", " ", "p", "a", "p", "e", "r", " ", "l", "a", "i", "d", " ", "o", "n", " ", "c", "a", "n", "v", "a", "s">>,
    \* 'oil on canvas on board'
    <<"o", "i", "l", " ", "o", "n", " ", "c", "a", "n", "v", "a", "s", " ", "o", "n", " ", "b", "o", "a", "r", "d">>,
    \* 'ink and wash on wove paper'
    <<"i", "n", "k", " ", "a", "n", "d", " ", "w", "a", "s", "h", " ", "o", "n", " ", "w", "o", "v", "e", " ", "p", "a", "p", "e", "r">>,
    \* 'stipple engraving'
    <<"s", "t", "i", "p", "p", "l", "e", " ", "e", "n", "g", "r", "a", "v", "i", "n", "g">>,
    \* 'sketched on paper'
    <<"s", "k", "e", "t", "c", "h", "e", "d", " ", "o", "n", " ", "p", "a", "p", "e", "r">>,
    \* 'paint on panel'
    <<"p", "a", "i", "n", "t", " ", "o", "n", " ", "p", "a", "n", "e", "l">>,
    \* 'bronze'
    <<"b", "r", "o", "n", "z", "e">>,
    \* 'paper'
    <<"p", "a", "p", "e", "r">>,
    \* 'oil papaintint'
    <<"o", "i", "l", " ", "p", "a", "p", "a", "i", "n", "t", "i", "n", "t">>,
    \* 'oil, wax, pawaxint'
    <<"o", "i", "l", ",", " ", "w", "a", "x", ",", " ", "p", "a", "w", "a", "x", "i", "n", "t">>,
    \* 'oil on board on canvas'
    <<"o", "i", "l", " ", "o", "n", " ", "b", "o", "a", "r", "d", " ", "o", "n", " ", "c", "a", "n", "v", "a", "s">>,
    \* 'tempera on panel, oil on canvas'
    <<"t", "e", "m", "p", "e", "r", "a", " ", "o", "n", " ", "p", "a", "n", "e", "l", ",", " ", "o", "i", "l", " ", "o", "n", " ", "c", "a", "n", "v", "a", "s">>,
    \* ''
    <<>>
  }

MediumTexts == PaintOnTexts \cup NamedMedia

Field(text) == [has |-> TRUE, text |-> text]
NoField     == [has |-> FALSE, text |-> <<>>]

OilOnCanvas == <<"o", "i", "l", " ", "o", "n", " ", "c", "a", "n", "v", "a", "s">>
Granite == <<"g", "r", "a", "n", "i", "t", "e">>
WatercolourPaper ==
  <<"w", "a", "t", "e", "r", "c", "o", "l", "o", "u", "r", ",", " ", "p", "a", "p", "e", "r">>
GessoGoldLeafOnPanel ==
  <<"g", "e", "s", "s", "o", " ", "a", "n", "d", " ", "g", "o", "l", "d", " ",
    "l", "e", "a", "f", " ", "o", "n", " ", "p", "a", "n", "e", "l">>
GraphiteOnPaper ==
  <<"g", "r", "a", "p", "h", "i", "t", "e", " ", "o", "n", " ", "p", "a", "p", "e", "r">>
OilPapaintint == <<"o", "i", "l", " ", "p", "a", "p", "a", "i", "n", "t", "i", "n", "t">>
OilOnPaperLaidOnCanvas ==
  <<"o", "i", "l", " ", "o", "n", " ", "p", "a", "p", "e", "r", " ", "l", "a", "i", "d", " ", "o", "n", " ", "c", "a", "n", "v", "a", "s">>
OilOnBoardOnCanvas ==
  <<"o", "i", "l", " ", "o", "n", " ", "b", "o", "a", "r", "d", " ", "o", "n", " ", "c", "a", "n", "v", "a", "s">>
OilPaintOnCanvas ==
  <<"o", "i", "l", " ", "p", "a", "i", "n", "t", " ", "o", "n", " ", "c", "a", "n", "v", "a", "s">>
OilOnCanvasCanvas ==
  <<"o", "i", "l", " ", "o", "n", " ", "c", "a", "n", "v", "a", "s", ",", " ",
    "c", "a", "n", "v", "a", "s">>

Artwork(proceed, src, date, medium) ==
  [proceed |-> proceed, src |-> src, date |-> date, medium |-> medium]

Artworks ==
  \* every date with a medium that is accepted, and with one that is not
  { Artwork(TRUE, d, Field(DateText(d)), Field(OilOnCanvas)) : d \in DateDescs }
  \cup { Artwork(TRUE, d, Field(DateText(d)), Field(Granite)) :
           d \in OtherDates }
  \* every medium with no date text
  \cup { Artwork(TRUE, Other(<<>>), Field(<<>>), Field(m)) : m \in MediumTexts }
  \* a missing date key, a missing medium key
  \cup { Artwork(TRUE, Other(<<>>), NoField, Field(OilOnCanvas)),
         Artwork(TRUE, Other(<<>>), Field(<<>>), NoField) }
  \* an artwork one of the checks before the date rules out
  \cup { Artwork(FALSE, Other(<<>>), Field(<<>>), Field(OilOnCanvas)) }

NoArtwork == Artwork(FALSE, Other(<<>>), NoField, NoField)

---------------------------------------------------------------------------
(* get_ycba_generator as a state machine *)

TypeOK ==
  /\ pc \in {"loop", "date", "medium", "on", "bare", "emit", "yielded",
             "skip_check", "skip_date", "skip_medium", "done"}
  /\ count \in 0..count0
  /\ paint \in BOOLEAN

Init ==
  /\ pc = "loop"
  /\ artwork = NoArtwork
  /\ metadata = EmptyDict
  /\ medium_text = <<>>
  /\ properties = EmptyDict
  /\ paint = FALSE
  /\ matched = {}
  /\ count0 \in 0..MaxCount
  /\ count = count0

NoCall ==
  /\ medium_text' = <<>>
  /\ properties' = EmptyDict
  /\ paint' = FALSE
  /\ matched' = {}

\* for artwork in artworks.values(): metadata = {} and the checks that
\* stop the artwork before its date is read
NextArtwork ==
  /\ pc = "loop"
  /\ \E a \in Artworks :
       /\ artwork' = a
       /\ pc' = IF a.proceed THEN "date" ELSE "skip_check"
  /\ metadata' = EmptyDict
  /\ NoCall
  /\ UNCHANGED <<count, count0>>

\* the loop ends: no artwork is left
Exhausted ==
  /\ pc = "loop"
  /\ pc' = "done"
  /\ UNCHANGED <<artwork, metadata, medium_text, properties, paint, matched, count, count0>>

\* try: date = artwork['date'][locale]  except KeyError: date = ''
DateOf(a) == IF a.date.has THEN a.date.text ELSE <<>>

\* fault: the chain entered for an empty date too
HasDate_always(date) == TRUE

\* if date:
HasDate(date) == date # <<>>

ExtractDate ==
  /\ pc = "date"
  /\ LET date == DateOf(artwork) IN
       IF HasDate(date)
       THEN LET r == InceptionKeys(metadata, date) IN
            /\ metadata' = r.md
            /\ pc' = IF r.skip THEN "skip_date" ELSE "medium"
       ELSE /\ metadata' = metadata
            /\ pc' = "medium"
  /\ UNCHANGED <<artwork, medium_text, properties, paint, matched, count, count0>>

Enter(st, next) ==
  /\ medium_text' = st.text
  /\ properties' = st.properties
  /\ paint' = st.paint
  /\ matched' = st.matched
  /\ pc' = next

Current == [text |-> medium_text, properties |-> properties, paint |-> paint,
            matched |-> matched]

\* media = artwork['medium']['en-GB'] and the first loop of
\* get_medium_poperties; a KeyError leaves qids = None and the artwork is skipped
Materials ==
  /\ pc = "medium"
  /\ IF artwork.medium.has
     THEN Enter(Phase1(StartCall(artwork.medium.text)), "on")
     ELSE pc' = "skip_medium" /\ NoCall
  /\ UNCHANGED <<artwork, metadata, count, count0>>

\* the second loop
OnSurfaces ==
  /\ pc = "on"
  /\ Enter(Phase2(Current), "bare")
  /\ UNCHANGED <<artwork, metadata, count, count0>>

\* the third loop, the return, and "if not qids: continue"
BareSurfaces ==
  /\ pc = "bare"
  /\ LET st == Phase3(Current) IN
       /\ Enter(st, IF DOMAIN st.properties = {} THEN "skip_medium" ELSE "emit")
       /\ metadata' = IF DOMAIN st.properties = {} THEN metadata
                      ELSE Put(metadata, "medium", st.properties)
  /\ UNCHANGED <<artwork, count, count0>>

\* fault: "count >= 0" for "count > 0"
Emit_offbyone ==
  /\ pc = "emit"
  /\ IF count >= 0
     THEN count' = count - 1 /\ pc' = "yielded"
     ELSE count' = count /\ pc' = "done"
  /\ UNCHANGED <<artwork, metadata, medium_text, properties, paint, matched, count0>>

\* if count > 0: count -= 1; yield metadata  else: return
Emit ==
  /\ pc = "emit"
  /\ IF count > 0
     THEN count' = count - 1 /\ pc' = "yielded"
     ELSE count' = count /\ pc' = "done"
  /\ UNCHANGED <<artwork, metadata, medium_text, properties, paint, matched, count0>>

\* the consumer asks for the next record, or a skipped artwork's
\* "continue": back to the head of the loop
Continue ==
  /\ pc \in {"yielded", "skip_check", "skip_date", "skip_medium"}
  /\ pc' = "loop"
  /\ artwork' = NoArtwork
  /\ metadata' = EmptyDict
  /\ NoCall
  /\ UNCHANGED <<count, count0>>

Next ==
  \/ NextArtwork
  \/ Exhausted
  \/ ExtractDate
  \/ Materials
  \/ OnSurfaces
  \/ BareSurfaces
  \/ Emit
  \/ Continue

Spec == Init /\ [][Next]_vars

---------------------------------------------------------------------------
(* What the claims speak of *)

InceptionKeySet ==
  {"inception", "inceptionstart", "inceptionend", "inceptioncirca", "inceptionafter"}

\* the inception keys of a record
Inception(md) == [k \in DOMAIN md \cap InceptionKeySet |-> md[k]]

\* the five variants as the record keys they are written to
Exact(y)          == [inception |-> y]
ExactApprox(y)    == [inception |-> y, inceptioncirca |-> TRUE]
ExactAfter(y)     == [inception |-> y, inceptionafter |-> TRUE]
Period(a, b)      == [inceptionstart |-> a, inceptionend |-> b]
PeriodApprox(a, b) == [inceptionstart |-> a, inceptionend |-> b, inceptioncirca |-> TRUE]

VariantKeys ==
  { {"inception"}, {"inception", "inceptioncirca"}, {"inception", "inceptionafter"},
    {"inceptionstart", "inceptionend"},
    {"inceptionstart", "inceptionend", "inceptioncirca"} }

\* the date has been dealt with and the artwork was not skipped for it
PastDate == pc \in {"medium", "on", "bare", "emit", "yielded", "skip_medium"}

\* get_medium_poperties has returned
Returned == artwork.medium.has /\ pc \in {"emit", "yielded", "skip_medium"}

\* one of the eight expressions matches
AnyFormMatches(date) ==
  \/ datematch(date).ok \/ datecircamatch(date).ok \/ periodmatch(date).ok
  \/ betweenperiodmatch(date).ok \/ aftermatch(date).ok \/ circaperiodmatch(date).ok
  \/ shortperiodmatch(date).ok \/ circashortperiodmatch(date).ok

\* the variant the reference classification gives description d
Reference(d) ==
  CASE d.form = "year"         -> Exact(d.y1)
    [] d.form = "cyear"        -> ExactApprox(d.y1)
    [] d.form = "circayear"    -> ExactApprox(d.y1)
    [] d.form = "period"       -> Period(d.y1, d.y2)
    [] d.form = "between"      -> Period(d.y1, d.y2)
    [] d.form = "after"        -> ExactAfter(d.y1)
    [] d.form = "cperiod"      -> PeriodApprox(d.y1, d.y2)
    [] d.form = "shortperiod"  -> Period(d.y1, (d.y1 \div 100) * 100 + d.zz)
    [] d.form = "cshortperiod" -> PeriodApprox(d.y1, (d.y1 \div 100) * 100 + d.zz)

\* the date was accepted with the variant and years of the reference
Agrees == pc # "skip_date" /\ (PastDate => Inception(metadata) = Reference(artwork.src))

\* the date stage has run for the current artwork
DateDone == PastDate \/ pc = "skip_date"

---------------------------------------------------------------------------
\* C1: a record past the date stage whose date text is not empty carries the
\* keys of exactly one of the five variants (never 'inception' together with
\* 'inceptionstart'/'inceptionend', never a start without an end, never circa
\* together with after) and its date matches one of the eight forms; an
\* artwork skipped for its date has no inception key.
C1_OneVariantOrRejected ==
  /\ (PastDate /\ HasDate(DateOf(artwork))) =>
       /\ DOMAIN Inception(metadata) \in VariantKeys
       /\ AnyFormMatches(DateOf(artwork))
  /\ pc = "skip_date" =>
       /\ DOMAIN Inception(metadata) = {}
       /\ ~AnyFormMatches(DateOf(artwork))

C1_Witness ==
  /\ pc = "yielded"
  /\ artwork.src.form = "cperiod"
  /\ DOMAIN Inception(metadata) = {"inceptionstart", "inceptionend", "inceptioncirca"}

\* C2: whenever a record carries 'inceptionstart' and 'inceptionend', the
\* start year is not after the end year.
C2_StartNotAfterEnd ==
  (PastDate /\ "inceptionstart" \in DOMAIN metadata) =>
     metadata["inceptionstart"] <= metadata["inceptionend"]

\* C3 as claimed: '<paint-type material> on <surface>' maps the material
\* and the surface to true, and 'watercolour, paper' gives
\* {watercolour: true, paper: false}.
C3_MaterialAndSurfaceTrue ==
  Returned =>
    /\ \A i \in PaintRules, j \in DOMAIN surfaces :
         artwork.medium.text = PaintOn(i, j) =>
           properties = (media[i].qid :> TRUE) @@ (surfaces[j].qid :> TRUE)
    /\ artwork.medium.text = WatercolourPaper =>
         properties = ("Q22915256" :> TRUE) @@ ("Q11472" :> FALSE)

\* the material rules other than i that matched in the first loop
OtherMedia(i) == {k \in DOMAIN media : <<"medium", k>> \in matched} \ {i}

\* C3 as amended: '<paint-type material> on <surface>' maps the material to
\* false and the surface to true; only for the surface 'vinyl', which the
\* material rule 'vinyl' consumes in the first loop, no surface is recorded
\* and the result is {material: false, vinyl material: false};
\* 'watercolour, paper' gives {watercolour: false, paper: false}.
C3_MaterialFalseSurfaceTrue ==
  Returned =>
    /\ \A i \in PaintRules, j \in DOMAIN surfaces :
         artwork.medium.text = PaintOn(i, j) =>
           /\ (OtherMedia(i) # {}) = (surfaces[j].qid = "Q1812439")
           /\ properties =
                IF OtherMedia(i) = {}
                THEN (media[i].qid :> FALSE) @@ (surfaces[j].qid :> TRUE)
                ELSE (media[i].qid :> FALSE) @@ ("xxx" :> FALSE)
    /\ artwork.medium.text = WatercolourPaper =>
         properties = ("Q22915256" :> FALSE) @@ ("Q11472" :> FALSE)

C3_Witness ==
  /\ pc = "yielded"
  /\ artwork.medium.text = OilOnCanvas
  /\ metadata["medium"] = ("Q296955" :> FALSE) @@ ("Q12321255" :> TRUE)

\* a rule flagged 'is paint' matched in the first loop
SawPaint == \E i \in PaintRules : <<"medium", i>> \in matched

C5_ShortPeriodCentury ==
  (DateDone /\ artwork.src.gap = 0 /\ artwork.src.form \in {"shortperiod", "cshortperiod"}) =>
     /\ pc # "skip_date"
     /\ Inception(metadata) =
          IF artwork.src.form = "shortperiod"
          THEN Period(artwork.src.y1, (artwork.src.y1 \div 100) * 100 + artwork.src.zz)
          ELSE PeriodApprox(artwork.src.y1, (artwork.src.y1 \div 100) * 100 + artwork.src.zz)

C5_Witness ==
  /\ pc = "yielded"
  /\ artwork.date.text = <<"1", "8", "8", "4", "-", "8", "6">>
  /\ Inception(metadata) = Period(1884, 1886)

\* C6: as usually written, 'Y' gives Exact(Y), 'c. Y' and 'circa Y' give
\* ExactApprox(Y), 'Y1-Y2' and 'between Y1 and Y2' in any letter case give
\* the same period (Y1, Y2) with no qualifier, 'after Y' in any letter case
\* gives ExactAfter(Y), and 'c. Y1-Y2' gives the approximate period.
C6_ReferenceClassification ==
  (DateDone /\ artwork.src.gap = 0
     /\ artwork.src.form \in {"year", "cyear", "circayear", "period", "between",
                              "after", "cperiod"}
     /\ (artwork.src.case = "lower" \/ artwork.src.form \in {"between", "after"})) =>
       Agrees

C6_Witness ==
  /\ pc = "yielded"
  /\ artwork.src.form = "between"
  /\ artwork.src.case = "upper"
  /\ Inception(metadata) = Period(1750, 1884)


\* the identifiers of the rules whose search matched in this call
MatchedQids ==
  {media[i].qid : i \in {k \in DOMAIN media : <<"medium", k>> \in matched}}
    \cup {surfaces[j].qid :
            j \in {k \in DOMAIN surfaces :
                     <<"on", k>> \in matched \/ <<"surface", k>> \in matched}}

\* no material rule and no surface rule is found in the text
NothingMatches(text) ==
  /\ \A i \in DOMAIN media : ~Search(mediumSearch[i], text).ok
  /\ \A j \in DOMAIN surfaces : ~Search(surfaceSearch[j], text).ok

\* C7: get_medium_poperties returns a mapping to booleans for every text;
\* when no material rule and no surface rule matches the text (such as
\* 'granite') the mapping is empty and the artwork is skipped, and otherwise
\* the mapping holds only identifiers of rules whose pattern matched.
C7_OnlyMatchedRules ==
  Returned =>
    /\ \A q \in DOMAIN properties : properties[q] \in BOOLEAN
    /\ DOMAIN properties \subseteq MatchedQids
    /\ NothingMatches(artwork.medium.text) =>
         (properties = EmptyDict /\ pc = "skip_medium")
    /\ artwork.medium.text = Granite => properties = EmptyDict

C7_Witness ==
  /\ pc = "skip_medium"
  /\ artwork.medium.has
  /\ artwork.medium.text = Granite
  /\ NothingMatches(Granite)
  /\ properties = EmptyDict

\* C8: for an empty or missing date text no inception key is set and the
\* artwork is not skipped for its date.
C8_EmptyDateNoInception ==
  (DateDone /\ DateOf(artwork) = <<>>) =>
     /\ pc # "skip_date"
     /\ DOMAIN Inception(metadata) = {}

C8_Witness ==
  /\ pc = "yielded"
  /\ ~artwork.date.has
  /\ DOMAIN Inception(metadata) = {}
  /\ "medium" \in DOMAIN metadata

\* gap k of the form stands just before or just after a year group
AroundYear(form, k) ==
  LET f == Forms[form]
      IsYear(n) == n \in DOMAIN f /\ f[n].part \in {"y1", "y2", "zz"}
  IN k \in Gaps(form) /\ (IsYear(k - 1) \/ IsYear(k + 1))

\* the date text has whitespace put at one gap of its form
Spaced == artwork.src.form # "other" /\ artwork.src.gap # 0 /\ artwork.src.ws # <<>>

\* C9 as claimed: for each of the eight forms, whitespace put before or
\* after a year group (' 1850', '1850 ', '1800 - 1900', 'after 1750 ')
\* gives the same variant and years as the form without it.
C9_WhitespaceAroundYears ==
  (DateDone /\ Spaced /\ AroundYear(artwork.src.form, artwork.src.gap)) => Agrees

\* C9 as amended: whitespace put between two parts of a form gives the same
\* variant and years as the form without it; whitespace before the first
\* part or after the last part makes the text unparseable and the artwork
\* is skipped, except a single newline at the very end, which is accepted.
C9_WhitespaceBetweenParts ==
  (DateDone /\ Spaced) =>
     IF \/ (1 < artwork.src.gap /\ artwork.src.gap < Len(Forms[artwork.src.form]))
        \/ (artwork.src.gap = Len(Forms[artwork.src.form]) /\ artwork.src.ws = <<"\n">>)
     THEN Agrees
     ELSE pc = "skip_date" /\ DOMAIN Inception(metadata) = {}

C9_Witness ==
  /\ pc = "yielded"
  /\ artwork.src.form = "period"
  /\ artwork.src.gap = 3
  /\ artwork.src.ws = <<" ", " ">>
  /\ artwork.date.text = <<"1", "7", "5", "0", " ", " ", "-", "1", "8", "8", "4">>
  /\ Inception(metadata) = Period(1750, 1884)

\* C10: in the returned result, a surface recorded by the second loop
\* ('on <surface>') was not matched again by the third loop, and its flag
\* is still the one the second loop wrote.
C10_OnSurfaceNotRematched ==
  Returned =>
    \A j \in DOMAIN surfaces :
      <<"on", j>> \in matched =>
        /\ <<"surface", j>> \notin matched
        /\ properties[surfaces[j].qid] = SawPaint

\* the identifiers of the two tables
MediaQids   == {media[i].qid : i \in DOMAIN media}
SurfaceQids == {surfaces[j].qid : j \in DOMAIN surfaces}

\* C11: the material and surface identifier sets of the tables are disjoint;
\* after the first loop the result maps exactly the identifiers of the
\* matched material rules, each to false, paint or not; and in the returned
\* mapping every identifier of the material table still maps to false.
C11_MaterialsAlwaysFalse ==
  /\ MediaQids \cap SurfaceQids = {}
  /\ pc = "on" =>
       /\ DOMAIN properties =
            {media[i].qid : i \in {k \in DOMAIN media : <<"medium", k>> \in matched}}
       /\ \A q \in DOMAIN properties : properties[q] = FALSE
  /\ Returned =>
       \A q \in DOMAIN properties \cap MediaQids : properties[q] = FALSE

C11_Witness ==
  /\ pc = "yielded"
  /\ artwork.medium.text = GessoGoldLeafOnPanel
  /\ <<"medium", 32>> \in matched
  /\ media[32].paint
  /\ properties["Q1514256"] = FALSE
  /\ properties["Q929186"] = FALSE
  /\ properties["Q1348059"] = TRUE

\* the catch-all rule 'paint', last of the material table
GenericPaint == Len(media)

\* C12: in the returned result, when a rule flagged 'is paint' other than
\* the generic 'paint' rule matched in the first loop, the generic paint
\* identifier is not a key; 'oil paint on canvas' has the oil identifier
\* and not the generic one.
C12_NoGenericPaintAfterSpecific ==
  Returned =>
    /\ (\E i \in PaintRules \ {GenericPaint} : <<"medium", i>> \in matched) =>
         media[GenericPaint].qid \notin DOMAIN properties
    /\ artwork.medium.text = OilPaintOnCanvas =>
         /\ "Q296955" \in DOMAIN properties
         /\ "Q174219" \notin DOMAIN properties

\* the surfaces the second loop recorded
OnMatched == {j \in DOMAIN surfaces : <<"on", j>> \in matched}

\* the working text the second loop starts from
AfterMaterials == Phase1(StartCall(artwork.medium.text)).text

\* C13: the second loop records at most one surface, the earliest in table
\* order whose 'on <surface>' is in the working text, with the paint flag,
\* and no other surface; in the returned mapping a surface the second loop
\* did not record maps to false and at most one key maps to true ('oil on
\* paper laid on canvas' gives canvas true and paper false).
C13_OneOnSurface ==
  /\ Cardinality(OnMatched) <= 1
  /\ pc = "bare" =>
       LET text  == AfterMaterials
           found == {j \in DOMAIN surfaces : Search(on_search[j], text).ok}
       IN
       /\ \A j \in OnMatched :
            /\ j \in found
            /\ \A k \in found : j <= k
            /\ properties[surfaces[j].qid] = paint
       /\ DOMAIN properties \cap SurfaceQids = {surfaces[j].qid : j \in OnMatched}
       /\ found # {} => OnMatched # {}
  /\ Returned =>
       /\ \A j \in DOMAIN surfaces \ OnMatched :
            surfaces[j].qid \in DOMAIN properties => properties[surfaces[j].qid] = FALSE
       /\ Cardinality({q \in DOMAIN properties : properties[q]}) <= 1
       /\ artwork.medium.text = OilOnPaperLaidOnCanvas =>
            /\ properties["Q12321255"] = TRUE
            /\ properties["Q11472"] = FALSE

C13_Witness ==
  /\ pc = "bare"
  /\ artwork.medium.text = OilOnPaperLaidOnCanvas
  /\ LET text == AfterMaterials IN
       Search(on_search[1], text).ok /\ Search(on_search[11], text).ok
  /\ OnMatched = {1}
  /\ properties = ("Q296955" :> FALSE) @@ ("Q12321255" :> TRUE)

\* the expressions that match the date text
MatchingForms(date) ==
  {f \in {"date", "datecirca", "period", "betweenperiod", "after", "circaperiod",
          "shortperiod", "circashortperiod"} :
     CASE f = "date"             -> datematch(date).ok
       [] f = "datecirca"        -> datecircamatch(date).ok
       [] f = "period"           -> periodmatch(date).ok
       [] f = "betweenperiod"    -> betweenperiodmatch(date).ok
       [] f = "after"            -> aftermatch(date).ok
       [] f = "circaperiod"      -> circaperiodmatch(date).ok
       [] f = "shortperiod"      -> shortperiodmatch(date).ok
       [] f = "circashortperiod" -> circashortperiodmatch(date).ok}

\* C14: no date text matches more than one of the eight expressions, so the
\* branch the if/elif chain takes is the one expression that matches,
\* whatever the order of the tests; a date is skipped exactly when none
\* matches.
C14_FormsDisjoint ==
  artwork.date.has =>
    /\ Cardinality(MatchingForms(DateOf(artwork))) <= 1
    /\ (DateDone /\ DateOf(artwork) # <<>>) =>
         (pc # "skip_date") = (MatchingForms(DateOf(artwork)) # {})

C14_Witness ==
  /\ pc = "yielded"
  /\ artwork.src.form = "cshortperiod"
  /\ artwork.date.text = <<"c", ".", " ", "1", "8", "8", "4", "-", "8", "6">>
  /\ MatchingForms(DateOf(artwork)) = {"circashortperiod"}
  /\ Inception(metadata) = PeriodApprox(1884, 1886)

\* C15: the remaining count stays between 0 and the count asked for; a
\* record is yielded only from the end of the loop body with a positive
\* count, and the yield takes one off; no other step (a skipped artwork among
\* them) changes the count; with a count of 0 the generator returns at the
\* next eligible artwork instead of yielding it, and after the return
\* nothing more is yielded.  So the records yielded, count0 - count of them,
\* are at most count0.
C15_YieldsBoundedByCount ==
  /\ [](count \in 0..count0)
  /\ [][ /\ count0' = count0
         /\ pc' = "yielded" => (pc = "emit" /\ count > 0 /\ count' = count - 1)
         /\ pc' # "yielded" => count' = count
         /\ (pc = "emit" /\ count = 0) => pc' = "done"
         /\ pc # "done" ]_vars

C15_Witness ==
  /\ pc = "done"
  /\ count0 = 1
  /\ count = 0
  /\ artwork.proceed
  /\ "medium" \in DOMAIN metadata
=============================================================================
